---------------------------- MODULE Spec2Model ----------------------------
(***************************************************************************)
(* Transport correlation and delivery layer of nanobot:                    *)
(*   - OpenAIAPIChannel (src/nanobot/channels/openaiapi.py): the pending   *)
(*     table of request futures, the HTTP request handler, send and stop;  *)
(*   - WebUIChannel (src/nanobot/channels/webui.py): the connection        *)
(*     registry, the WebSocket handler, login, send and stop.              *)
(* One action is one atomic segment of a coroutine: the code between two   *)
(* suspension points (await) of the single-threaded event loop.            *)
(***************************************************************************)
EXTENDS Integers, Sequences, FiniteSets, TLC

\* ---------------------------------------------------------------- bounds
NReq == 2            \* HTTP requests that arrive in one run
NConn == 2           \* WebSocket connections that arrive in one run

Reqs == 1..NReq
NoReq == 0
\* uuid4().hex values: one per request; 0 stands for the empty request_id
\* and NReq + 1 for an id that no request was ever given.
Ids == 1..NReq
NoId == 0
UnknownId == NReq + 1
Contents == {"R1", "R2"}

\* ------------------------------------------------------- request inputs
\* Authorization headers: scheme "" is a missing header, "Basic" any header
\* that does not start with "Bearer ".
Headers ==
    { [scheme |-> "", token |-> ""],
      [scheme |-> "Basic", token |-> "k1"],
      [scheme |-> "Bearer", token |-> "k1"],
      [scheme |-> "Bearer", token |-> " k2 "],
      [scheme |-> "Bearer", token |-> "zz"] }

Msg(role, content) == [isdict |-> TRUE, role |-> role, content |-> content]
NotADict == [isdict |-> FALSE, role |-> "", content |-> ""]

\* The "messages" field of a payload: missing, not a list, or a list.
MsgLists ==
    { << >>,
      << Msg("user", " ") >>,
      << Msg("assistant", "yo"), Msg("USER", " hi ") >>,
      << Msg("tool", "hi"), NotADict >> }

Payloads ==
    { [kind |-> "missing", list |-> << >>], [kind |-> "notlist", list |-> << >>] }
    \cup { [kind |-> "list", list |-> l] : l \in MsgLists }

NoHeader == [scheme |-> "", token |-> ""]
NoPayload == [kind |-> "missing", list |-> << >>]

\* ---------------------------------------------------------- pure helpers
\* str.strip() on the strings the model uses.
Strip(s) ==
    CASE s = " " -> ""
      [] s = " hi " -> "hi"
      [] s = " k2 " -> "k2"
      [] s = " alice " -> "alice"
      [] OTHER -> s

\* str.lower() on the role names the model uses.
Lower(s) ==
    CASE s = "USER" -> "user"
      [] OTHER -> s

EmptyMap == [x \in {} |-> ""]

\* An _auth_map that adds the "api:default" entry even for an empty api_key.
auth_map_default(c) ==
    [t \in DOMAIN c.api_keys \cup {c.api_key} |->
        IF t \in DOMAIN c.api_keys THEN c.api_keys[t] ELSE "api:default"]

\* OpenAIAPIChannel._auth_map
auth_map(c) ==
    IF c.api_key # "" /\ c.api_key \notin DOMAIN c.api_keys
    THEN [t \in DOMAIN c.api_keys \cup {c.api_key} |->
             IF t \in DOMAIN c.api_keys THEN c.api_keys[t] ELSE "api:default"]
    ELSE c.api_keys

\* _authenticate_request without its check of the "Bearer " prefix.
authenticate_request_anyscheme(c, h) ==
    LET m == auth_map(c)
        token == Strip(h.token)
    IN  IF DOMAIN m = {} THEN [status |-> 500, principal |-> ""]
        ELSE IF token \notin DOMAIN m \/ m[token] = ""
             THEN [status |-> 401, principal |-> ""]
        ELSE [status |-> 200, principal |-> m[token]]

\* OpenAIAPIChannel._authenticate_request: the status and the principal.
authenticate_request(c, h) ==
    LET m == auth_map(c)
        token == Strip(h.token)
    IN  IF DOMAIN m = {} THEN [status |-> 500, principal |-> ""]
        ELSE IF h.scheme # "Bearer" THEN [status |-> 401, principal |-> ""]
        ELSE IF token \notin DOMAIN m \/ m[token] = ""
             THEN [status |-> 401, principal |-> ""]
        ELSE [status |-> 200, principal |-> m[token]]

\* OpenAIAPIChannel._message_text for string contents.
message_text(content) == Strip(content)

\* The roles _normalize_messages_for_agent keeps, after lower-casing and
\* mapping "developer" to "system".
NormRole(role) ==
    LET r == Lower(Strip(role))
    IN  IF r = "developer" THEN "system" ELSE r

RECURSIVE Normalized(_)
Normalized(msgs) ==
    IF msgs = << >> THEN << >>
    ELSE LET raw == Head(msgs)
             rest == Normalized(Tail(msgs))
         IN  IF ~raw.isdict THEN rest
             ELSE IF NormRole(raw.role) \notin {"system", "user", "assistant"} THEN rest
             ELSE IF message_text(raw.content) = "" THEN rest
             ELSE << [role |-> NormRole(raw.role),
                      content |-> message_text(raw.content)] >> \o rest

\* OpenAIAPIChannel._normalize_messages_for_agent
normalize_messages_for_agent(msgs) ==
    LET normalized == Normalized(msgs)
        users == { i \in 1..Len(normalized) : normalized[i].role = "user" }
    IN  IF normalized = << >> THEN [history |-> << >>, prompt |-> ""]
        ELSE IF users # {}
        THEN LET idx == CHOOSE i \in users : \A j \in users : j <= i
             IN  [history |-> SubSeq(normalized, 1, idx - 1),
                  prompt |-> normalized[idx].content]
        ELSE [history |-> SubSeq(normalized, 1, Len(normalized) - 1),
              prompt |-> normalized[Len(normalized)].content]

\* A _sender_id that returns the principal as the middleware stored it.
sender_id_raw(principal) == principal

\* OpenAIAPIChannel._sender_id: the authenticated principal without its
\* surrounding whitespace.
sender_id(principal) == Strip(principal)

\* BaseChannel.is_allowed: the allow-list check on a sender id.
is_allowed(c, sender) == sender \in c.allow_from


\* ------------------------------------------------------------- variables
VARIABLES
    cfg,          \* OpenAIAPIConfig: api_key, api_keys, allow_from
    srv,          \* OpenAIAPIChannel: "init", "serving", "failed", "stopped"
    pending,      \* OpenAIAPIChannel._pending: request id -> request (its future)
    fut,          \* the future created for each request: state and result
    pc,           \* where each request task stands
    rid,          \* the request_id each request generated (NoId: none yet)
    stream,       \* payload.get("stream") of each request
    sender,       \* request.state.auth_principal of each request
    resp,         \* what each request has rendered to its HTTP client
    obs,          \* the terminal outcomes each waiting request task observed
    bus,          \* inbound messages published to the bus
    atPublish,    \* whether the request's entry was in the table when it published
    sent,         \* per request id, how often send was called with it
    warned,       \* issued request ids send has logged "no pending request" for
    raised        \* whether send has raised an error

httpVars == << cfg, srv, pending, fut, pc, rid, stream, sender, resp, obs, bus,
              atPublish, sent, warned, raised >>

VARIABLES
    wcfg,         \* WebUIConfig: username, password, allow_from
    tokens,       \* WebUIChannel._tokens
    connections,  \* WebUIChannel._connections: chat_id -> WebSocket
    wpc,          \* where each WebSocket handler task stands
    wkey,         \* the chat_id of each connection
    wsender,      \* the sender_id of each connection
    closed,       \* the close code sent on each connection (0: none)
    wbus,         \* inbound messages the WebSocket handlers published
    latest,       \* per chat_id, the connection registered last (0: none)
    wsend,        \* WebUIChannel.send in flight: its chat_id and its handle
    wstop,        \* WebUIChannel.stop: its position and the handles left to close
    stopped,      \* the handles stop() has closed, the handles it unregistered
    media_dir     \* the uploads stored: the token each was presented with

wsVars == << wcfg, tokens, connections, wpc, wkey, wsender, closed, wbus, latest,
            wsend, wstop, stopped, media_dir >>

VARIABLES
    nm_messages,  \* the argument of a call of _normalize_messages_for_agent
    nm_result     \* what the call returned: history and prompt

\* One call of WebFetchTool._safe_get and the network it talks to.
VARIABLES
    sg_pc,        \* where the call is: idle, validate, get, await, returned, raised
    current_url,  \* the local current_url
    hop,          \* how many iterations of the for loop have been completed
    vp_url,       \* the argument of the last call of _validate_public_target
    is_valid,     \* the local is_valid
    error_msg,    \* the local error_msg
    sg_r,         \* the local r: the last response client.get returned
    requests,     \* how many GET requests the client has put on the wire
    sent_url,     \* the URL of the last GET request on the wire
    sg_result     \* how the call ended: the response returned or the exception

webVars == << sg_pc, current_url, hop, vp_url, is_valid, error_msg, sg_r, requests,
              sent_url, sg_result >>

fnVars == << nm_messages, nm_result, webVars >>

vars == << httpVars, wsVars, fnVars >>

\* --------------------------------------------------------------- futures
NoFuture == [st |-> "none", val |-> ""]
NewFuture == [st |-> "pending", val |-> ""]
done(f) == f.st \in {"result", "cancelled"}
\* asyncio.Future.cancel: no effect on a future that is done.
cancel(f) == IF done(f) THEN f ELSE [st |-> "cancelled", val |-> ""]
\* asyncio.Future.set_result: the future afterwards, and whether the call
\* raises InvalidStateError (it does on a future that is done).
set_result(f, v) ==
    IF done(f) THEN [fut |-> f, raised |-> TRUE]
    ELSE [fut |-> [st |-> "result", val |-> v], raised |-> FALSE]

\* ------------------------------------------------------------- responses
HttpError(code) == [kind |-> "error", code |-> code, content |-> "", finish |-> ""]
\* A chat.completion whose message has no content.
Completion_blank(c) ==
    [kind |-> "chat.completion", code |-> 200, content |-> "", finish |-> "stop"]
Completion(c) ==
    [kind |-> "chat.completion", code |-> 200, content |-> c, finish |-> "stop"]
FirstChunk(c) ==
    [kind |-> "chat.completion.chunk", code |-> 200, content |-> c, finish |-> "null"]
FinalChunk ==
    [kind |-> "chat.completion.chunk", code |-> 200, content |-> "", finish |-> "stop"]
ErrorChunk == [kind |-> "timeout_error", code |-> 200, content |-> "", finish |-> ""]
DoneMarker == [kind |-> "[DONE]", code |-> 200, content |-> "", finish |-> ""]
\* health(): {"status": "ok"}
HealthOk == [kind |-> "health", code |-> 200, content |-> "ok", finish |-> ""]

\* ------------------------------------------------------ the pending table
Empty == [i \in {} |-> NoReq]
\* self._pending[request_id] = fut
Registered(p, id, r) == [i \in DOMAIN p \cup {id} |-> IF i = id THEN r ELSE p[i]]
\* self._pending.pop(request_id, None): the table afterwards
Popped(p, id) == [i \in DOMAIN p \ {id} |-> p[i]]

Issued == { rid[r] : r \in Reqs } \ {NoId}
\* uuid.uuid4().hex: a value no earlier request was given.
uuid4 == { i \in Ids : i \notin Issued /\ \A j \in Ids \ Issued : i <= j }

\* ------------------------------------------------------------------ Init
Cfg(k, m, a) == [api_key |-> k, api_keys |-> m, allow_from |-> a]
Configs ==
    { Cfg("", EmptyMap, {"api:default"}),
      Cfg("k1", EmptyMap, {"api:default"}),
      Cfg("k1", [t \in {"k2"} |-> "alice"], {"alice"}),
      Cfg("k2", [t \in {"k2"} |-> " alice "], {"api:default", "alice"}) }

HttpInit ==
    /\ cfg \in Configs
    /\ srv = "init"
    /\ pending = Empty
    /\ fut = [r \in Reqs |-> NoFuture]
    /\ pc = [r \in Reqs |-> "new"]
    /\ rid = [r \in Reqs |-> NoId]
    /\ stream = [r \in Reqs |-> FALSE]
    /\ sender = [r \in Reqs |-> ""]
    /\ resp = [r \in Reqs |-> << >>]
    /\ obs = [r \in Reqs |-> << >>]
    /\ bus = {}
    /\ atPublish = [r \in Reqs |-> "none"]
    /\ sent = [i \in Ids |-> "never"]
    /\ warned = {}
    /\ raised = FALSE

\* ------------------------------------------------------- OpenAIAPIChannel
\* start(): refuses to serve when no credential is configured.
Start ==
    /\ srv = "init"
    /\ srv' = IF DOMAIN auth_map(cfg) = {} THEN "failed" ELSE "serving"
    /\ UNCHANGED << cfg, pending, fut, pc, rid, stream, sender, resp, obs, bus,
                    atPublish, sent, warned, raised >>
    /\ UNCHANGED << wsVars, fnVars >>

\* auth_middleware: authenticate, answer the error or call the route.
AuthMiddleware(r, h) ==
    /\ srv = "serving"
    /\ pc[r] = "new"
    /\ \A q \in Reqs : q < r => pc[q] # "new"
    /\ LET a == authenticate_request(cfg, h)
       IN  IF a.status # 200
           THEN /\ resp' = [resp EXCEPT ![r] = << HttpError(a.status) >>]
                /\ pc' = [pc EXCEPT ![r] = "done"]
                /\ UNCHANGED sender
           ELSE /\ sender' = [sender EXCEPT ![r] = a.principal]
                /\ pc' = [pc EXCEPT ![r] = "authed"]
                /\ UNCHANGED resp
    /\ UNCHANGED << cfg, srv, pending, fut, rid, stream, obs, bus, atPublish, sent, warned, raised >>
    /\ UNCHANGED << wsVars, fnVars >>

\* GET /health: the request passes through auth_middleware like every other
\* http request; only then does call_next reach the health route, which
\* returns {"status": "ok"} without any await of its own.
HealthRequest(r, h) ==
    /\ srv = "serving"
    /\ pc[r] = "new"
    /\ \A q \in Reqs : q < r => pc[q] # "new"
    /\ LET a == authenticate_request(cfg, h)
       IN  IF a.status # 200
           THEN /\ resp' = [resp EXCEPT ![r] = << HttpError(a.status) >>]
                /\ UNCHANGED sender
           ELSE /\ resp' = [resp EXCEPT ![r] = << HealthOk >>]
                /\ sender' = [sender EXCEPT ![r] = a.principal]
    /\ pc' = [pc EXCEPT ![r] = "done"]
    /\ UNCHANGED << cfg, srv, pending, fut, rid, stream, obs, bus, atPublish, sent, warned, raised >>
    /\ UNCHANGED << wsVars, fnVars >>

\* chat_completions storing the future only after _handle_message returned.
TableAtPublish_late(p, id, r) == p

\* The table as _handle_message finds it: chat_completions stores the future
\* (line 139) before it calls _handle_message (line 141), with no await between.
TableAtPublish(p, id, r) == Registered(p, id, r)

\* BaseChannel._handle_message: publish the inbound message to the bus.
handle_message(b, snd, id, n) ==
    b \cup { [channel |-> "openaiapi", sender_id |-> snd, request_id |-> id,
              content |-> n.prompt, history |-> n.history] }

\* chat_completions without its check of the extracted prompt.
validate_noprompt(c, p, snd) ==
    IF p.kind # "list" \/ p.list = << >> THEN 400
    ELSE IF ~is_allowed(c, snd) THEN 403
    ELSE 200

\* chat_completions, lines 118-129: the status the checks before the
\* registration give: 400 for a missing, non-list or empty "messages" and for
\* an empty prompt, 403 for a sender the allow-list refuses, else 200.
validate(c, p, snd) ==
    IF p.kind # "list" \/ p.list = << >> THEN 400
    ELSE IF normalize_messages_for_agent(p.list).prompt = "" THEN 400
    ELSE IF ~is_allowed(c, snd) THEN 403
    ELSE 200

\* chat_completions up to the end of its call of _handle_message: validate,
\* generate the id, check the allow-list, store the future, publish. `ok` is
\* whether _handle_message returns (TRUE) or raises (FALSE), `id` the value
\* uuid.uuid4().hex returns at line 126.
ChatCompletionsWith(r, p, s, ok, id) ==
    /\ pc[r] = "authed"
    /\ LET n == normalize_messages_for_agent(p.list)
           v == validate(cfg, p, sender_id(sender[r]))
       IN  IF v # 200
           THEN /\ resp' = [resp EXCEPT ![r] = << HttpError(v) >>]
                /\ pc' = [pc EXCEPT ![r] = "done"]
                /\ IF v = 403 THEN rid' = [rid EXCEPT ![r] = id]
                              ELSE UNCHANGED rid
                /\ UNCHANGED << pending, fut, bus, atPublish >>
           ELSE /\ rid' = [rid EXCEPT ![r] = id]
                /\ fut' = [fut EXCEPT ![r] = NewFuture]
                /\ pending' = Registered(pending, id, r)
                /\ IF ok
                   THEN /\ bus' = handle_message(bus, sender_id(sender[r]), id, n)
                        /\ atPublish' = [atPublish EXCEPT ![r] =
                              IF id \in DOMAIN TableAtPublish(pending, id, r)
                              THEN "yes" ELSE "no"]
                        /\ pc' = [pc EXCEPT ![r] = "published"]
                        /\ UNCHANGED resp
                   ELSE /\ resp' = [resp EXCEPT ![r] = << HttpError(500) >>]
                        /\ pc' = [pc EXCEPT ![r] = "done"]
                        /\ UNCHANGED << bus, atPublish >>
    /\ stream' = [stream EXCEPT ![r] = s]
    /\ UNCHANGED << cfg, srv, sender, obs, sent, warned, raised >>
    /\ UNCHANGED << wsVars, fnVars >>

\* chat_completions with the ids uuid4 gives in practice: never one it gave
\* before.
ChatCompletions(r, p, s, ok) ==
    /\ pc[r] = "authed"
    /\ \E id \in uuid4 : ChatCompletionsWith(r, p, s, ok, id)

\* _handle_message has returned: the non-streaming handler goes on to wait_for
\* (line 212); the streaming one returns its StreamingResponse (line 209),
\* whose generator has not run yet.
PublishReturns(r) ==
    /\ pc[r] = "published"
    /\ pc' = [pc EXCEPT ![r] = IF stream[r] THEN "streaming" ELSE "waiting"]
    /\ UNCHANGED << cfg, srv, pending, fut, rid, stream, sender, resp, obs, bus,
                    atPublish, sent, warned, raised >>
    /\ UNCHANGED << wsVars, fnVars >>

\* The server iterates event_stream(): the generator reaches its wait_for.
StreamStarts(r) ==
    /\ pc[r] = "streaming"
    /\ pc' = [pc EXCEPT ![r] = "waiting"]
    /\ UNCHANGED << cfg, srv, pending, fut, rid, stream, sender, resp, obs, bus,
                    atPublish, sent, warned, raised >>
    /\ UNCHANGED << wsVars, fnVars >>

\* The StreamingResponse is dropped before its generator is ever iterated
\* (the client is gone): nothing of event_stream runs.
StreamAbandoned(r) ==
    /\ pc[r] = "streaming"
    /\ pc' = [pc EXCEPT ![r] = "done"]
    /\ UNCHANGED << cfg, srv, pending, fut, rid, stream, sender, resp, obs, bus,
                    atPublish, sent, warned, raised >>
    /\ UNCHANGED << wsVars, fnVars >>

\* An event stream that sends the content in a single chunk with
\* finish_reason "stop".
RenderReply_single(s, c) ==
    IF s THEN << [kind |-> "chat.completion.chunk", code |-> 200, content |-> c,
                  finish |-> "stop"], DoneMarker >>
         ELSE << Completion(c) >>

\* What the handler renders for a reply (lines 174-207 and 221-243).
RenderReply(s, c) ==
    IF s THEN << FirstChunk(c), FinalChunk, DoneMarker >> ELSE << Completion(c) >>
\* A timeout rendered as status 504 on both paths.
RenderTimeout_status(s) == << HttpError(504) >>

\* What the handler renders on timeout (lines 162-172 and 215).
RenderTimeout(s) ==
    IF s THEN << ErrorChunk, DoneMarker >> ELSE << HttpError(504) >>

\* wait_for returns the future's result: the handler renders the reply.
WaitReturns(r) ==
    /\ pc[r] = "waiting"
    /\ fut[r].st = "result"
    /\ resp' = [resp EXCEPT ![r] = @ \o RenderReply(stream[r], fut[r].val)]
    /\ obs' = [obs EXCEPT ![r] = Append(@, "reply")]
    /\ pc' = [pc EXCEPT ![r] = "done"]
    /\ UNCHANGED << cfg, srv, pending, fut, rid, stream, sender, bus, atPublish, sent, warned, raised >>
    /\ UNCHANGED << wsVars, fnVars >>

\* A wait on the future that has no deadline (await fut).
TimeoutFires_never(r) ==
    /\ FALSE
    /\ UNCHANGED vars

\* The deadline of wait_for passes: wait_for cancels the future it waits on,
\* and the handler's except clause runs only when the task is resumed. A
\* future that is already done stays as it is; whether the task then sees the
\* result (WaitReturns) or the timeout depends on the asyncio version.
TimeoutFires(r) ==
    /\ pc[r] = "waiting"
    /\ fut' = [fut EXCEPT ![r] = cancel(@)]
    /\ pc' = [pc EXCEPT ![r] = "expired"]
    /\ UNCHANGED << cfg, srv, pending, rid, stream, sender, resp, obs, bus,
                    atPublish, sent, warned, raised >>
    /\ UNCHANGED << wsVars, fnVars >>

\* The except clause without its pop.
TimeoutTable_keep(p, id) == p

\* except asyncio.TimeoutError: the table without the request's entry.
TimeoutTable(p, id) == Popped(p, id)

\* An except clause that reports the timeout and then waits on the future
\* again instead of leaving the handler.
HandleTimeout_retry(r) ==
    /\ pc[r] = "expired"
    /\ pending' = Popped(pending, rid[r])
    /\ resp' = [resp EXCEPT ![r] = @ \o RenderTimeout(stream[r])]
    /\ obs' = [obs EXCEPT ![r] = Append(@, "timeout")]
    /\ pc' = [pc EXCEPT ![r] = "waiting"]
    /\ UNCHANGED << cfg, srv, fut, rid, stream, sender, bus, atPublish, sent, warned, raised >>
    /\ UNCHANGED << wsVars, fnVars >>

\* The handler's except asyncio.TimeoutError clause (lines 160-172, 213-215).
HandleTimeout(r) ==
    /\ pc[r] = "expired"
    /\ pending' = TimeoutTable(pending, rid[r])
    /\ resp' = [resp EXCEPT ![r] = @ \o RenderTimeout(stream[r])]
    /\ obs' = [obs EXCEPT ![r] = Append(@, "timeout")]
    /\ pc' = [pc EXCEPT ![r] = "done"]
    /\ UNCHANGED << cfg, srv, fut, rid, stream, sender, bus, atPublish, sent, warned, raised >>
    /\ UNCHANGED << wsVars, fnVars >>

\* wait_for finds its future cancelled (by stop): CancelledError is not a
\* TimeoutError, so it leaves the handler without any except clause running.
WaitCancelled(r) ==
    /\ pc[r] = "waiting"
    /\ fut[r].st = "cancelled"
    /\ obs' = [obs EXCEPT ![r] = Append(@, "cancelled")]
    /\ pc' = [pc EXCEPT ![r] = "done"]
    /\ UNCHANGED << cfg, srv, pending, fut, rid, stream, sender, resp, bus,
                    atPublish, sent, warned, raised >>
    /\ UNCHANGED << wsVars, fnVars >>

\* The request task itself is cancelled at one of its awaits (the client
\* disconnected): inside wait_for the future is cancelled with it.
TaskCancelled(r) ==
    /\ pc[r] \in {"published", "waiting"}
    /\ fut' = [fut EXCEPT ![r] = IF pc[r] = "waiting" THEN cancel(@) ELSE @]
    /\ obs' = [obs EXCEPT ![r] = Append(@, "cancelled")]
    /\ pc' = [pc EXCEPT ![r] = "done"]
    /\ UNCHANGED << cfg, srv, pending, rid, stream, sender, resp, bus, atPublish, sent, warned, raised >>
    /\ UNCHANGED << wsVars, fnVars >>

\* send emptying the whole table instead of popping one entry.
SendTable_clear(p, id) == Empty

\* send looking the future up with get instead of pop.
SendTable_get(p, id) == p

\* send, line 76: the table after self._pending.pop(request_id, None).
SendTable(p, id) == Popped(p, id)

\* send calling set_result on the popped future without looking at done().
Resolve_unguarded(f, v) == set_result(f, v)

\* send, lines 81-82: complete the popped future unless it is done already.
Resolve(f, v) ==
    IF ~done(f) THEN set_result(f, v)
    ELSE [fut |-> f, raised |-> FALSE]

\* The request ids an outbound message can carry: none (NoId), one the channel
\* never issued, or the id of a request whose inbound message was published.
OutboundIds == {NoId, UnknownId} \cup { rid[r] : r \in { q \in Reqs : atPublish[q] # "none" } }

\* OpenAIAPIChannel.send: resolve a pending request with the agent's content.
Send(id, c) ==
    /\ srv \in {"serving", "stopped"}
    /\ id \in OutboundIds
    /\ IF id = NoId
       THEN UNCHANGED << pending, fut, raised, warned >>
       ELSE IF id \notin DOMAIN pending
       THEN /\ warned' = warned \cup ({id} \cap Ids)
            /\ UNCHANGED << pending, fut, raised >>
       ELSE LET r == pending[id]
                res == Resolve(fut[r], c)
            IN  /\ pending' = SendTable(pending, id)
                /\ fut' = [fut EXCEPT ![r] = res.fut]
                /\ raised' = (raised \/ res.raised)
                /\ UNCHANGED warned
    /\ sent' = [i \in Ids |-> IF i # id THEN sent[i]
                               ELSE IF sent[i] = "never" THEN "once" ELSE "again"]
    /\ UNCHANGED << cfg, srv, pc, rid, stream, sender, resp, obs, bus, atPublish >>
    /\ UNCHANGED << wsVars, fnVars >>

\* A stop loop that pops every entry without cancelling its future.
StopFuture_forget(f) == f

\* stop, lines 65-66: if not fut.done(): fut.cancel()
StopFuture(f) == IF ~done(f) THEN cancel(f) ELSE f

\* OpenAIAPIChannel.stop: cancel every pending future and empty the table.
\* The loop has no await: it is one atomic step.
Stop ==
    /\ srv = "serving"
    /\ srv' = "stopped"
    /\ fut' = [r \in Reqs |->
                 IF \E id \in DOMAIN pending : pending[id] = r
                 THEN StopFuture(fut[r]) ELSE fut[r]]
    /\ pending' = Empty
    /\ UNCHANGED << cfg, pc, rid, stream, sender, resp, obs, bus, atPublish, sent, warned, raised >>
    /\ UNCHANGED << wsVars, fnVars >>

\* ------------------------------------------------------------ WebUIChannel
Conns == 1..NConn
NoConn == 0
Keys == {"chatA", "chatB"}
Hosts == {"h1", "h2"}
\* sender_id = f"web:{client_host}"
SenderOf(h) == IF h = "h1" THEN "web:h1" ELSE "web:h2"
\* Tokens a client may present ("" is no token) and the values randomhex(32)
\* returns to login, in the order it returns them.
ClientTokens == {"", "t1", "zz"}
TokenPool == {"t1", "t2"}
Credentials == { << "admin", "pw" >>, << "admin", "no" >>, << "", "" >> }
Frames == {"text", "media", "badmedia", "empty", "other", "nondict", "nonjson", "disconnect"}
MaxPub == 1          \* bound: inbound WebSocket messages waiting on the bus

WCfg(u, pw, a) == [username |-> u, password |-> pw, allow_from |-> a]
WConfigs ==
    { WCfg("admin", "pw", {"web:h1"}),
      WCfg("admin", "", {"web:h1"}),
      WCfg("", "", {"web:h1", "web:h2"}) }

NoMap == [k \in {} |-> NoConn]
IdleSend == [pc |-> "idle", key |-> "", ws |-> NoConn]
IdleStop == [pc |-> "idle", left |-> {}]

WsInit ==
    /\ wcfg \in WConfigs
    /\ tokens = {}
    /\ connections = NoMap
    /\ wpc = [c \in Conns |-> "new"]
    /\ wkey = [c \in Conns |-> ""]
    /\ wsender = [c \in Conns |-> ""]
    /\ closed = [c \in Conns |-> 0]
    /\ wbus = << >>
    /\ latest = [k \in Keys |-> NoConn]
    /\ wsend = IdleSend
    /\ wstop = IdleStop
    /\ stopped = {}
    /\ media_dir = {}

\* The WebUIChannel before any of its operations ran, with one fixed config.
WsIdle == WsInit /\ wcfg = WCfg("admin", "pw", {"web:h1"})
\* The OpenAIAPIChannel before any of its operations ran, with one fixed config.
HttpIdle == HttpInit /\ cfg = Cfg("k1", EmptyMap, {"api:default"})

\* No call of _normalize_messages_for_agent on its own.
NotCalled == [called |-> FALSE, history |-> << >>, prompt |-> ""]

\* A URL as urlparse splits it: the host part as written and the path. An
\* empty host is a URL without a network location.
Url(h, p) == [host |-> h, path |-> p]
NoUrl == Url("-", "-")
NoResponse == [status |-> 0, location |-> NoUrl]
NoResult == [kind |-> "none", msg |-> "", response |-> NoResponse]

\* No call of WebFetchTool._safe_get.
WebIdle ==
    /\ sg_pc = "idle" /\ current_url = NoUrl /\ hop = 0
    /\ vp_url = NoUrl /\ is_valid = FALSE /\ error_msg = ""
    /\ sg_r = NoResponse /\ requests = 0 /\ sent_url = NoUrl
    /\ sg_result = NoResult

FnIdle == nm_messages = << >> /\ nm_result = NotCalled /\ WebIdle

Init == HttpInit /\ WsIdle /\ FnIdle
InitWS == HttpIdle /\ WsInit /\ FnIdle

\* An auth switch that is on as soon as a username or a password is set.
auth_enabled_either(c) == c.username # "" \/ c.password # ""

\* WebUIChannel._auth_enabled
auth_enabled(c) == c.username # "" /\ c.password # ""

\* _check_token accepting any token that is not empty.
check_token_nonempty(c, toks, t) ==
    IF ~auth_enabled(c) THEN TRUE ELSE t # ""

\* WebUIChannel._check_token (None and "" are both no token)
check_token(c, toks, t) ==
    IF ~auth_enabled(c) THEN TRUE ELSE t # "" /\ t \in toks

\* randomhex(32): a value login has not returned before.
randomhex == { t \in TokenPool : t \notin tokens /\ (t = "t2" => "t1" \in tokens) }

\* POST /login: the status and the token of the response, `t` being the
\* value randomhex(32) returns when it is called.
LoginResponse(c, u, pw, t) ==
    IF ~auth_enabled(c) THEN [status |-> 200, token |-> ""]
    ELSE IF u = c.username /\ pw = c.password THEN [status |-> 200, token |-> t]
    ELSE [status |-> 401, token |-> ""]

\* A login that compares only the username.
Login_anypassword(u, pw) ==
    /\ wstop.pc # "done"
    /\ IF ~auth_enabled(wcfg) THEN UNCHANGED tokens
       ELSE IF u = wcfg.username
       THEN \E t \in randomhex : tokens' = tokens \cup {t}
       ELSE UNCHANGED tokens
    /\ UNCHANGED << wcfg, connections, wpc, wkey, wsender, closed, wbus, latest,
                    wsend, wstop, stopped, media_dir >>
    /\ UNCHANGED << httpVars, fnVars >>

\* POST /login: mint a token for the configured username and password.
Login(u, pw) ==
    /\ wstop.pc # "done"
    /\ IF ~auth_enabled(wcfg) THEN UNCHANGED tokens
       ELSE IF u = wcfg.username /\ pw = wcfg.password
       THEN \E t \in randomhex : tokens' = tokens \cup {t}
       ELSE UNCHANGED tokens
    /\ UNCHANGED << wcfg, connections, wpc, wkey, wsender, closed, wbus, latest,
                    wsend, wstop, stopped >>
    /\ UNCHANGED media_dir
    /\ UNCHANGED << httpVars, fnVars >>

\* POST /upload: check the token of the authorization header (the text after
\* "Bearer "), then store the file in the media directory. Answers 401 for a
\* token the check refuses and 422 for a request without a file.
Upload(t, hasfile) ==
    /\ wstop.pc # "done"
    /\ media_dir' = IF check_token(wcfg, tokens, t) /\ hasfile
                    THEN media_dir \cup {t} ELSE media_dir
    /\ UNCHANGED << wcfg, tokens, connections, wpc, wkey, wsender, closed, wbus,
                    latest, wsend, wstop, stopped >>
    /\ UNCHANGED << httpVars, fnVars >>

\* websocket_endpoint, lines 165-176: the allow-list and token checks, then
\* either close(code=1008) and return, or the call of websocket.accept().
WsConnect(c, k, h, t) ==
    /\ wstop.pc # "done"
    /\ wpc[c] = "new"
    /\ \A d \in Conns : d < c => wpc[d] # "new"
    /\ IF ~is_allowed(wcfg, SenderOf(h)) \/ ~check_token(wcfg, tokens, t)
       THEN /\ closed' = [closed EXCEPT ![c] = 1008]
            /\ wpc' = [wpc EXCEPT ![c] = "rejected"]
            /\ UNCHANGED << wkey, wsender >>
       ELSE /\ wpc' = [wpc EXCEPT ![c] = "accepting"]
            /\ wkey' = [wkey EXCEPT ![c] = k]
            /\ wsender' = [wsender EXCEPT ![c] = SenderOf(h)]
            /\ UNCHANGED closed
    /\ UNCHANGED << wcfg, tokens, connections, wbus, latest, wsend, wstop, stopped >>
    /\ UNCHANGED media_dir
    /\ UNCHANGED << httpVars, fnVars >>

\* A registration that keeps the entry a key already has (setdefault).
Accepted_keep(conns, k, c) ==
    [x \in DOMAIN conns \cup {k} |-> IF x \in DOMAIN conns THEN conns[x] ELSE c]

\* self._connections[chat_id] = websocket
Accepted(conns, k, c) == [x \in DOMAIN conns \cup {k} |-> IF x = k THEN c ELSE conns[x]]
\* self._connections.pop(chat_id, None): the registry afterwards
Removed(conns, k) == [x \in DOMAIN conns \ {k} |-> conns[x]]

\* websocket.accept() has returned: register the connection (line 177) and
\* wait for the first frame.
WsRegister(c) ==
    /\ wpc[c] = "accepting"
    /\ connections' = Accepted(connections, wkey[c], c)
    /\ latest' = [latest EXCEPT ![wkey[c]] = c]
    /\ wpc' = [wpc EXCEPT ![c] = "open"]
    /\ UNCHANGED << wcfg, tokens, wkey, wsender, closed, wbus, wsend, wstop, stopped >>
    /\ UNCHANGED media_dir
    /\ UNCHANGED << httpVars, fnVars >>

\* A "message" frame published with its content as it is, without the
\* "[file]" placeholder.
Inbound_raw(c, content, media) ==
    [channel |-> "webui", conn |-> c, sender_id |-> wsender[c], chat_id |-> wkey[c],
     content |-> content, media |-> media]

\* The inbound message a "message" frame makes _handle_message publish.
Inbound(c, content, media) ==
    [channel |-> "webui", conn |-> c, sender_id |-> wsender[c], chat_id |-> wkey[c],
     content |-> IF content # "" THEN content ELSE "[file]", media |-> media]

\* An element of a media_paths list: a string, or a value of another type.
Path(v) == [isstr |-> TRUE, v |-> v]
NotAString == [isstr |-> FALSE, v |-> ""]

\* The frames a client sends, as json.loads returns them:
\*   text:     {"type":"message","content":" hi "}
\*   media:    {"type":"message","content":" ","media_paths":["f"]}
\*   badmedia: {"type":"message","content":" ","media_paths":[1]}
\*   empty:    {"type":"message","content":" "}
\*   other:    {"type":"ping","content":"hi"}
\*   nondict:  a JSON value that is not an object (data.get raises)
\*   nonjson:  text that is not JSON (json.loads raises)
\*   disconnect: receive_text raises WebSocketDisconnect
Parsed(f) ==
    CASE f = "text" ->
           [json |-> "object", type |-> "message", content |-> " hi ", media_paths |-> << >>]
      [] f = "media" ->
           [json |-> "object", type |-> "message", content |-> " ",
            media_paths |-> << Path("f") >>]
      [] f = "badmedia" ->
           [json |-> "object", type |-> "message", content |-> " ",
            media_paths |-> << NotAString >>]
      [] f = "empty" ->
           [json |-> "object", type |-> "message", content |-> " ", media_paths |-> << >>]
      [] f = "other" ->
           [json |-> "object", type |-> "ping", content |-> "hi", media_paths |-> << >>]
      [] f = "nondict" ->
           [json |-> "value", type |-> "", content |-> "", media_paths |-> << >>]
      [] OTHER ->
           [json |-> "none", type |-> "", content |-> "", media_paths |-> << >>]

\* [p for p in (data.get("media_paths") or []) if isinstance(p, str)]
StringPaths(paths) ==
    LET strs == SelectSeq(paths, LAMBDA x : x.isstr)
    IN  [i \in 1..Len(strs) |-> strs[i].v]

\* What the handler does with one received frame (lines 184-195): the inbound
\* messages it publishes, and whether the frame makes it raise.
OnFrame(c, f) ==
    LET data == Parsed(f)
        content == Strip(data.content)
        media == StringPaths(data.media_paths)
    IN  IF data.json # "object" THEN [publish |-> << >>, raises |-> TRUE]
        ELSE IF data.type = "message" /\ (content # "" \/ media # << >>)
        THEN [publish |-> << Inbound(c, content, media) >>, raises |-> FALSE]
        ELSE [publish |-> << >>, raises |-> FALSE]

\* A handler without its finally clause.
HandlerCleanup_none(conns, k, c) == conns

\* finally: self._connections.pop(chat_id, None)
HandlerCleanup(conns, k, c) == Removed(conns, k)

\* One turn of the receive loop (lines 183-195), or the end of the handler
\* through an except clause and the finally clause (lines 196-201).
WsReceive(c, f) ==
    /\ wpc[c] = "open"
    /\ UNCHANGED << wcfg, tokens, wkey, wsender, closed, latest, wsend, wstop, stopped >>
    /\ UNCHANGED media_dir
    /\ UNCHANGED << httpVars, fnVars >>
    /\ LET o == OnFrame(c, f)
       IN  /\ Len(wbus) + Len(o.publish) <= MaxPub
           /\ wbus' = wbus \o o.publish
           /\ IF o.raises
              THEN /\ connections' = HandlerCleanup(connections, wkey[c], c)
                   /\ wpc' = [wpc EXCEPT ![c] = "done"]
              ELSE UNCHANGED << connections, wpc >>

\* WebUIChannel.send up to its await of ws.send_text: look the handle up and
\* start the write on it; without a handle, return.
WsSend(k) ==
    /\ wsend.pc = "idle"
    /\ wsend' = IF k \in DOMAIN connections
                THEN [pc |-> "writing", key |-> k, ws |-> connections[k]]
                ELSE IdleSend
    /\ UNCHANGED << wcfg, tokens, connections, wpc, wkey, wsender, closed, wbus,
                    latest, wstop, stopped >>
    /\ UNCHANGED media_dir
    /\ UNCHANGED << httpVars, fnVars >>

\* A send that logs the failed write and keeps the entry.
Evicted_keep(conns, k, ws) == conns

\* except Exception: self._connections.pop(msg.chat_id, None)
Evicted(conns, k, ws) == Removed(conns, k)

\* ws.send_text returns (ok) or raises (~ok): a failed write evicts.
WsSendDone(ok) ==
    /\ wsend.pc = "writing"
    /\ connections' = IF ok THEN connections ELSE Evicted(connections, wsend.key, wsend.ws)
    /\ wsend' = IdleSend
    /\ UNCHANGED << wcfg, tokens, wpc, wkey, wsender, closed, wbus, latest, wstop, stopped >>
    /\ UNCHANGED media_dir
    /\ UNCHANGED << httpVars, fnVars >>

\* The agent loop takes the oldest inbound message off the bus.
BusConsume ==
    /\ wbus # << >>
    /\ wbus' = Tail(wbus)
    /\ UNCHANGED << wcfg, tokens, connections, wpc, wkey, wsender, closed, latest,
                    wsend, wstop, stopped >>
    /\ UNCHANGED media_dir
    /\ UNCHANGED << httpVars, fnVars >>

Range(f) == { f[x] : x \in DOMAIN f }

\* WebUIChannel.stop: close each handle of the snapshot list(values()), one
\* await per handle, then clear the registry.
WsStop ==
    /\ wstop.pc \in {"idle", "closing"}
    /\ LET todo == IF wstop.pc = "idle" THEN Range(connections) ELSE wstop.left
       IN  IF todo = {}
           THEN /\ stopped' = Range(connections)
                /\ connections' = NoMap
                /\ wstop' = [pc |-> "done", left |-> {}]
                /\ UNCHANGED closed
           ELSE \E c \in todo :
                /\ closed' = [closed EXCEPT ![c] = 1000]
                /\ wstop' = [pc |-> "closing", left |-> todo \ {c}]
                /\ UNCHANGED << connections, stopped >>
    /\ UNCHANGED << wcfg, tokens, wpc, wkey, wsender, wbus, latest, wsend >>
    /\ UNCHANGED media_dir
    /\ UNCHANGED << httpVars, fnVars >>

Next ==
    \/ Start
    \/ \E r \in Reqs, h \in Headers : AuthMiddleware(r, h)
    \/ \E r \in Reqs, h \in Headers : HealthRequest(r, h)
    \/ \E r \in Reqs, p \in Payloads, s \in BOOLEAN, ok \in BOOLEAN :
          ChatCompletions(r, p, s, ok)
    \/ \E r \in Reqs : PublishReturns(r)
    \/ \E r \in Reqs : StreamStarts(r)
    \/ \E r \in Reqs : StreamAbandoned(r)
    \/ \E r \in Reqs : WaitReturns(r)
    \/ \E r \in Reqs : TimeoutFires(r)
    \/ \E r \in Reqs : HandleTimeout(r)
    \/ \E r \in Reqs : WaitCancelled(r)
    \/ \E r \in Reqs : TaskCancelled(r)
    \/ \E id \in Ids \cup {NoId, UnknownId}, c \in Contents : Send(id, c)
    \/ Stop

WsNext ==
    \/ \E cr \in Credentials : Login(cr[1], cr[2])
    \/ \E t \in ClientTokens, hasfile \in BOOLEAN : Upload(t, hasfile)
    \/ \E c \in Conns, k \in Keys, h \in Hosts, t \in ClientTokens : WsConnect(c, k, h, t)
    \/ \E c \in Conns : WsRegister(c)
    \/ \E c \in Conns, f \in Frames : WsReceive(c, f)
    \/ \E k \in Keys : WsSend(k)
    \/ \E ok \in BOOLEAN : WsSendDone(ok)
    \/ WsStop
    \/ BusConsume

\* The OpenAIAPIChannel, and the WebUIChannel, each under every interleaving
\* of its tasks.
Spec == Init /\ [][Next]_vars
SpecWS == InitWS /\ [][WsNext]_vars

\* The OpenAIAPIChannel when nothing is assumed about uuid4: line 126 may
\* return any value, one that is in the table included. The code never
\* compares a new id with the table.
InitDup == HttpIdle /\ WsIdle /\ FnIdle
NextDup ==
    \/ Next
    \/ \E r \in Reqs, p \in Payloads, s \in BOOLEAN, ok \in BOOLEAN, id \in Ids :
          ChatCompletionsWith(r, p, s, ok, id)
SpecDup == InitDup /\ [][NextDup]_vars

\* _normalize_messages_for_agent on its own, called on every list of at most
\* MaxLen messages: user messages (one with an upper-case role and padded
\* text, one with blank text), an assistant, a developer and a tool message,
\* and an element that is not a dict.
MaxLen == 3
NormInputs ==
    { Msg("user", "q1"), Msg("USER", " hi "), Msg("user", " "), Msg("assistant", "a1"),
      Msg("developer", "d1"), Msg("tool", "t1"), NotADict }
MessageLists == UNION { [1..n -> NormInputs] : n \in 0..MaxLen }

InitNorm ==
    /\ HttpIdle /\ WsIdle
    /\ nm_messages \in MessageLists
    /\ nm_result = NotCalled
    /\ WebIdle

Normalize ==
    /\ ~nm_result.called
    /\ LET n == normalize_messages_for_agent(nm_messages)
       IN  nm_result' = [called |-> TRUE, history |-> n.history, prompt |-> n.prompt]
    /\ UNCHANGED << nm_messages, httpVars, wsVars, webVars >>

NextNorm == Normalize
SpecNorm == InitNorm /\ [][NextNorm]_vars

\* The two channels side by side on one event loop, from the arrival of a
\* request or a connection up to the publication of its inbound message.
InitId ==
    /\ HttpInit /\ DOMAIN cfg.api_keys # {}
    /\ WsInit /\ wcfg = WCfg("admin", "", {"web:h1"})
    /\ FnIdle
NextId ==
    \/ Start
    \/ \E r \in Reqs, h \in Headers : AuthMiddleware(r, h)
    \/ \E r \in Reqs, p \in Payloads, s \in BOOLEAN, ok \in BOOLEAN :
          ChatCompletions(r, p, s, ok)
    \/ \E c \in Conns, k \in Keys, h \in Hosts, t \in ClientTokens : WsConnect(c, k, h, t)
    \/ \E c \in Conns : WsRegister(c)
    \/ \E c \in Conns, f \in Frames : WsReceive(c, f)
    \/ BusConsume
SpecId == InitId /\ [][NextId]_vars

\* ------------------------------------------------------ web.py: web_fetch
MAX_REDIRECTS == 5

\* Host parts of the URLs: a name that needs DNS, a blocked name in mixed
\* case, a name with a blocked suffix, a private and a public address
\* literal, no host at all, and an unclosed bracket, on which urlparse raises
\* ValueError.
UrlHosts == { "example.com", "LocalHost", "app.internal", "10.0.0.1",
              "93.184.216.34", "", "[bad" }
UrlPaths == { "/", "/next" }
Urls == { Url(h, p) : h \in UrlHosts, p \in UrlPaths }

\* (urlparse(url).hostname or "").strip().lower() for the hosts above.
hostname_of(url) ==
    CASE url.host = "LocalHost" -> "localhost"
      [] OTHER -> url.host

\* The addresses of the model and the ipaddress properties they have.
PublicIps == { "93.184.216.34" }
PrivateIps == { "10.0.0.1" }
Addresses == PublicIps \cup PrivateIps

is_private_or_local_ip(ip) == ip \in PrivateIps

\* What socket.getaddrinfo answers for a name at the moment it is asked: it
\* raises gaierror, or returns one or more addresses.
gaierror == { }
DnsAnswers == SUBSET Addresses

\* hostname.endswith((".localhost", ".local", ".internal"))
EndsWithLocal(hostname) == hostname \in { "app.internal" }

Accept == [ok |-> TRUE, error |-> ""]
Reject(msg) == [ok |-> FALSE, error |-> msg]

validate_public_target(url, infos) ==
    IF url.host = "[bad" THEN Reject("Invalid IPv6 URL")
    ELSE LET hostname == hostname_of(url)
         IN  IF hostname = "" THEN Reject("Missing domain")
             ELSE IF \/ hostname \in { "localhost", "localhost.localdomain" }
                     \/ EndsWithLocal(hostname)
                  THEN Reject("Blocked local hostname")
             ELSE IF hostname \in Addresses
                  THEN IF is_private_or_local_ip(hostname)
                       THEN Reject("Blocked private IP")
                       ELSE Accept
             ELSE IF \E ip \in infos : is_private_or_local_ip(ip)
                  THEN Reject("Blocked private DNS target")
                  ELSE Accept

\* urljoin(str(r.url), r.headers["location"]): a location without a network
\* location is resolved against the URL that was requested; one that
\* urlparse cannot split raises ValueError.
JoinRaises(location) == location.host = "[bad"
urljoin(base, location) ==
    IF location.host = "" THEN Url(base.host, location.path) ELSE location

\* The responses of the network: a success, a redirect the loop follows, a
\* 304 the loop does not follow, and a client error; with or without a
\* location header.
Statuses == { 200, 302, 304, 404 }
RedirectStatuses == { 301, 302, 303, 307, 308 }
Locations == Urls \cup { NoUrl }
Responses == [status : Statuses, location : Locations]

IsRedirect(resp_) ==
    resp_.status \in RedirectStatuses /\ resp_.location # NoUrl

\* Response.raise_for_status: a 2xx response passes and a 4xx or 5xx response
\* raises HTTPStatusError. For the other codes the outcome depends on the
\* httpx release that is installed: both are possible.
StatusOutcomes(resp_) ==
    IF resp_.status \in 200..299 THEN { "return" }
    ELSE IF resp_.status \in 400..599 THEN { "HTTPStatusError" }
    ELSE { "return", "HTTPStatusError" }

\* A loop that runs two iterations more than range(MAX_REDIRECTS + 1).
LoopDone_late(i) == i >= MAX_REDIRECTS + 3

\* for _ in range(MAX_REDIRECTS + 1): the loop is over after i iterations.
LoopDone(i) == i >= MAX_REDIRECTS + 1

\* A validation whose verdict is not acted on.
AfterValidate_proceed(verdict) == "get"

\* if not is_valid: raise ValueError(error_msg)
AfterValidate(verdict) == IF verdict.ok THEN "get" ELSE "raised"

Raised(kind, msg) == [kind |-> kind, msg |-> msg, response |-> NoResponse]
Returned(resp_) == [kind |-> "return", msg |-> "", response |-> resp_]

\* _safe_get(url) has been called and is at the top of its loop.
InitFetch ==
    /\ HttpIdle /\ WsIdle
    /\ nm_messages = << >> /\ nm_result = NotCalled
    /\ sg_pc = "validate" /\ current_url \in Urls /\ hop = 0
    /\ vp_url = NoUrl /\ is_valid = FALSE /\ error_msg = ""
    /\ sg_r = NoResponse /\ requests = 0 /\ sent_url = NoUrl
    /\ sg_result = NoResult

\* Lines 342-344: validate current_url, raise ValueError when it is rejected.
SafeGetValidate(infos) ==
    /\ sg_pc = "validate"
    /\ LET verdict == validate_public_target(current_url, infos)
       IN  /\ vp_url' = current_url
           /\ is_valid' = verdict.ok
           /\ error_msg' = verdict.error
           /\ sg_pc' = AfterValidate(verdict)
           /\ sg_result' = IF AfterValidate(verdict) = "raised"
                           THEN Raised("ValueError", verdict.error)
                           ELSE sg_result
    /\ UNCHANGED << current_url, hop, sg_r, requests, sent_url >>
    /\ UNCHANGED << nm_messages, nm_result, httpVars, wsVars >>

\* Lines 346-350: client.get sends the request for current_url.
SafeGetSend ==
    /\ sg_pc = "get"
    /\ requests' = requests + 1
    /\ sent_url' = current_url
    /\ sg_pc' = "await"
    /\ UNCHANGED << current_url, hop, vp_url, is_valid, error_msg, sg_r, sg_result >>
    /\ UNCHANGED << nm_messages, nm_result, httpVars, wsVars >>

\* client.get raises: no connection, or the 30 second timeout of the client.
SafeGetTransportError ==
    /\ sg_pc = "await"
    /\ sg_pc' = "raised"
    /\ sg_result' = Raised("RequestError", "")
    /\ UNCHANGED << current_url, hop, vp_url, is_valid, error_msg, sg_r, requests,
                    sent_url >>
    /\ UNCHANGED << nm_messages, nm_result, httpVars, wsVars >>

\* Lines 346-359: client.get returns a response; a redirect with a location
\* moves current_url and starts the next iteration, or ends the loop; any
\* other response goes through raise_for_status and is returned.
SafeGetResponse(resp_, outcome) ==
    /\ sg_pc = "await"
    /\ sg_r' = resp_
    /\ IF IsRedirect(resp_)
       THEN IF JoinRaises(resp_.location)
            THEN /\ sg_pc' = "raised"
                 /\ sg_result' = Raised("ValueError", "Invalid IPv6 URL")
                 /\ UNCHANGED << current_url, hop >>
            ELSE /\ current_url' = urljoin(sent_url, resp_.location)
                 /\ hop' = hop + 1
                 /\ IF LoopDone(hop + 1)
                    THEN /\ sg_pc' = "raised"
                         /\ sg_result' = Raised("ValueError", "Too many redirects")
                    ELSE /\ sg_pc' = "validate"
                         /\ UNCHANGED sg_result
       ELSE /\ outcome \in StatusOutcomes(resp_)
            /\ sg_pc' = IF outcome = "return" THEN "returned" ELSE "raised"
            /\ sg_result' = IF outcome = "return" THEN Returned(resp_)
                            ELSE Raised("HTTPStatusError", "")
            /\ UNCHANGED << current_url, hop >>
    /\ UNCHANGED << vp_url, is_valid, error_msg, requests, sent_url >>
    /\ UNCHANGED << nm_messages, nm_result, httpVars, wsVars >>

NextFetch ==
    \/ \E infos \in DnsAnswers : SafeGetValidate(infos)
    \/ SafeGetSend
    \/ SafeGetTransportError
    \/ \E resp_ \in Responses, outcome \in { "return", "HTTPStatusError" } :
          SafeGetResponse(resp_, outcome)
SpecFetch == InitFetch /\ [][NextFetch]_vars

\* Validation is synchronous code, and the client is built with timeout=30.0:
\* every request it sends ends with a response or with an exception.
SpecFetchLive == SpecFetch /\ WF_vars(NextFetch)

\* The event loop runs every task that is ready, and the timer of wait_for
\* fires: a waiting task whose future is done is resumed, the deadline of a
\* waiting task passes, and the except clause of an expired wait runs. Nothing
\* is assumed about send: the bus may never deliver a reply.
Fairness ==
    \A r \in Reqs :
        /\ WF_vars(TimeoutFires(r))
        /\ WF_vars(HandleTimeout(r))
        /\ WF_vars(WaitReturns(r))
        /\ WF_vars(WaitCancelled(r))
SpecLive == Spec /\ Fairness



\* ================================================================ claims
\* ---------------------------------------------------------------- C1
\* C1 (timeout exclusivity, safety part): under every interleaving of send,
\* the wait_for deadline and stop, a request task observes at most one
\* terminal outcome; once it has observed one, neither the outcome nor what it
\* rendered changes; what it rendered is the rendering of that outcome alone,
\* so a request that reported the timeout never renders a reply.
C1_TimeoutExclusive ==
    [][ \A r \in Reqs :
          /\ Len(obs'[r]) <= 1
          /\ obs[r] # << >> => obs'[r] = obs[r] /\ resp'[r] = resp[r]
          /\ obs'[r] = << "timeout" >> => resp'[r] = RenderTimeout(stream'[r])
          /\ obs'[r] = << "reply" >> =>
                /\ fut'[r].st = "result"
                /\ resp'[r] = RenderReply(stream'[r], fut'[r].val)
          /\ obs'[r] = << "cancelled" >> => resp'[r] = << >> ]_vars

\* A request reported the timeout although a send carried its id and stop ran.
C1_Witness ==
    \E r \in Reqs :
        /\ obs[r] = << "timeout" >>
        /\ sent[rid[r]] # "never"
        /\ srv = "stopped"

\* ---------------------------------------------------------------- C2
\* C2 (idempotent resolution): a future that is done is never changed again,
\* and every send carrying a request id that an earlier send carried finds no
\* entry for it, leaves the table and every future as they are, and raises
\* nothing.
C2_IdempotentResolution ==
    [][ /\ \A r \in Reqs : done(fut[r]) => fut'[r] = fut[r]
        /\ \A id \in Ids, c \in Contents :
              Send(id, c) /\ sent[id] # "never" =>
                  /\ id \notin DOMAIN pending
                  /\ pending' = pending
                  /\ fut' = fut
                  /\ ~raised' ]_vars

\* A request got its reply from one send, and a further send carried its id.
C2_Witness ==
    \E r \in Reqs :
        /\ fut[r].st = "result"
        /\ sent[rid[r]] = "again"
        /\ rid[r] \in warned

\* ---------------------------------------------------------------- C3
\* C3 (late delivery is dropped): a send carrying the id of a request that has
\* reported the timeout (streaming or not) finds no entry, leaves the table
\* and every future as they are, and raises nothing.
C3_LateDeliveryDropped ==
    [][ \A r \in Reqs, c \in Contents :
          obs[r] = << "timeout" >> /\ Send(rid[r], c) =>
              /\ rid[r] \notin DOMAIN pending
              /\ pending' = pending
              /\ fut' = fut
              /\ ~raised' ]_vars

\* The only send for a timed-out request's id found no entry, and stop never
\* ran: the entry was removed by the timeout, and the send came after it.
C3_Witness ==
    \E r \in Reqs :
        /\ obs[r] = << "timeout" >>
        /\ sent[rid[r]] = "once"
        /\ rid[r] \in warned
        /\ srv = "serving"

\* ---------------------------------------------------------------- C4
\* C4 (register before publish): whenever a request's inbound message is
\* published its id is in the table; and while its future is pending and stop
\* has not run, the entry stays there, so a reply finds the waiter.
C4_RegisterBeforePublish ==
    \A r \in Reqs :
        /\ atPublish[r] # "no"
        /\ atPublish[r] = "yes" /\ fut[r].st = "pending" /\ srv = "serving" =>
              rid[r] \in DOMAIN pending /\ pending[rid[r]] = r

\* A published request got its reply through the table.
C4_Witness ==
    \E r \in Reqs : atPublish[r] = "yes" /\ fut[r].st = "result" /\ obs[r] = << "reply" >>

\* ---------------------------------------------------------------- C5
\* The keys of the configured key map (api_keys and the single api_key).
ConfiguredKeys == DOMAIN cfg.api_keys \cup ({cfg.api_key} \ {""})
MissingOrInvalid(h) == h.scheme # "Bearer" \/ Strip(h.token) \notin ConfiguredKeys

\* C5 (HTTP auth short-circuit): a request with a missing header, a header that
\* is not a Bearer header, or a token that is not a configured key is answered
\* 401 and nothing else: nothing is published and the table is unchanged; a
\* request answered 401 has no id, no entry and no publication.
C5_AuthShortCircuit ==
    [][ /\ \A r \in Reqs, h \in Headers :
              AuthMiddleware(r, h) /\ MissingOrInvalid(h) =>
                  /\ resp'[r] = << HttpError(401) >>
                  /\ pc'[r] = "done"
                  /\ bus' = bus
                  /\ pending' = pending
        /\ \A r \in Reqs :
              resp'[r] = << HttpError(401) >> =>
                  /\ rid'[r] = NoId
                  /\ atPublish'[r] = "none"
                  /\ \A i \in DOMAIN pending' : pending'[i] # r ]_vars

\* One request was answered 401 while another one was published.
C5_Witness ==
    \E r, q \in Reqs : resp[r] = << HttpError(401) >> /\ atPublish[q] = "yes"

\* ---------------------------------------------------------------- C7
BadMessages(p) == p.kind # "list" \/ p.list = << >>
\* No message of the list has a kept role and a text that is not blank.
NoPrompt(p) ==
    \A i \in 1..Len(p.list) :
        \/ ~p.list[i].isdict
        \/ Lower(Strip(p.list[i].role)) \notin {"system", "developer", "user", "assistant"}
        \/ Strip(p.list[i].content) = ""

\* C7 (validation and allow-list rejection): a request whose messages are
\* missing, empty or not a list, or give no prompt, is answered 400; a valid
\* one whose sender the allow-list refuses is answered 403; in both cases
\* nothing is published and the table is unchanged.
C7_RejectNoSideEffect ==
    [][ \A r \in Reqs, p \in Payloads, s \in BOOLEAN, ok \in BOOLEAN :
          ChatCompletions(r, p, s, ok) =>
              /\ BadMessages(p) \/ NoPrompt(p) =>
                    resp'[r] = << HttpError(400) >> /\ bus' = bus /\ pending' = pending
              /\ ~BadMessages(p) /\ ~NoPrompt(p) /\ Strip(sender[r]) \notin cfg.allow_from =>
                    resp'[r] = << HttpError(403) >> /\ bus' = bus /\ pending' = pending ]_vars

\* One request was answered 400 and another one 403.
C7_Witness ==
    \E r, q \in Reqs : resp[r] = << HttpError(400) >> /\ resp[q] = << HttpError(403) >>

\* ---------------------------------------------------------------- C10
\* C10 (no dangling entry): once the handling of a request has ended, by any
\* path, its request id is not in the table.
C10_NoDanglingEntry ==
    \A r \in Reqs : pc[r] = "done" => rid[r] \notin DOMAIN pending

\* ---------------------------------------------------------------- C6
AllowedHost(h) == SenderOf(h) \in wcfg.allow_from
\* The session-token check passes: auth is off (username or password not
\* configured) or the token is one login has minted.
TokenValid(t) == wcfg.username = "" \/ wcfg.password = "" \/ (t # "" /\ t \in tokens)

\* C6 (WebSocket auth short-circuit): a connection whose sender the allow-list
\* refuses, or whose token check fails, is closed with code 1008 without being
\* accepted; the step changes neither the registry nor the bus; and a rejected
\* connection is never registered and never publishes.
C6_WsAuthShortCircuit ==
    [][ /\ \A c \in Conns, k \in Keys, h \in Hosts, t \in ClientTokens :
              WsConnect(c, k, h, t) /\ (~AllowedHost(h) \/ ~TokenValid(t)) =>
                  /\ closed'[c] = 1008
                  /\ wpc'[c] = "rejected"
                  /\ connections' = connections
                  /\ wbus' = wbus
        /\ \A c \in Conns :
              wpc[c] = "rejected" =>
                  /\ wpc'[c] = "rejected"
                  /\ closed'[c] = 1008
                  /\ \A k \in DOMAIN connections' : connections'[k] # c
                  /\ \A i \in 1..Len(wbus') : wbus'[i].conn # c ]_vars

\* With auth enabled and a token minted, one connection was rejected while
\* another one is open.
C6_Witness ==
    \E c, d \in Conns :
        /\ wpc[c] = "rejected" /\ closed[c] = 1008
        /\ wpc[d] = "open"
        /\ tokens # {}

\* ---------------------------------------------------------------- C8
\* C8 (connection replacement): the registry holds for a key, if anything, the
\* connection registered last for it, and every send addressed to a key that
\* has an entry starts its write on that connection, never on one that was
\* registered before it.
C8_ConnectionReplacement ==
    [][ /\ \A k \in DOMAIN connections' : connections'[k] = latest'[k]
        /\ \A k \in Keys :
              WsSend(k) /\ k \in DOMAIN connections =>
                  wsend'.pc = "writing" /\ wsend'.ws = latest[k] ]_vars

\* Two open connections share a key, and a send writes to the second one.
C8_Witness ==
    \E c, d \in Conns :
        /\ c # d
        /\ wpc[c] = "open" /\ wpc[d] = "open"
        /\ wkey[c] = wkey[d]
        /\ latest[wkey[d]] = d
        /\ wsend.pc = "writing" /\ wsend.key = wkey[d] /\ wsend.ws = d

\* ---------------------------------------------------------------- C9
\* C9 (registry entry lifetime): a registered connection stops being the
\* handle of its key only when a newer connection for the key is registered,
\* a send to it fails, its own handler ends (disconnect or error), or stop
\* runs.
C9_EntryLifetime ==
    [][ \A k \in Keys, c \in Conns :
          /\ k \in DOMAIN connections
          /\ connections[k] = c
          /\ k \notin DOMAIN connections' \/ connections'[k] # c
          => \/ \E d \in Conns \ {c} : WsRegister(d) /\ wkey[d] = k
             \/ WsSendDone(FALSE) /\ wsend.ws = c
             \/ \E f \in Frames : WsReceive(c, f)
             \/ WsStop ]_vars

\* ---------------------------------------------------------------- C11
\* C11 (HTTP shutdown drains the table): when stop returns the table is empty
\* and every future that had an entry when stop began is done; the ones that
\* were pending are cancelled, so a task waiting on one of them can leave its
\* wait with the cancellation (the guard of WaitCancelled holds for it).
C11_StopDrains ==
    [][ Stop =>
          /\ pending' = Empty
          /\ \A id \in DOMAIN pending :
                LET r == pending[id]
                IN  /\ done(fut'[r])
                    /\ fut[r].st = "pending" => fut'[r].st = "cancelled"
                    /\ fut[r].st = "pending" /\ pc[r] = "waiting" =>
                          pc'[r] = "waiting" /\ fut'[r].st = "cancelled" ]_vars

\* stop ran while every request was waiting on its pending future.
C11_Witness ==
    /\ srv = "stopped"
    /\ \A r \in Reqs : pc[r] = "waiting" /\ fut[r].st = "cancelled"

\* ---------------------------------------------------------------- C12
\* C12 (WebSocket shutdown closes what it unregisters): at the step in which
\* stop clears the registry and returns, the registry becomes empty and stop
\* has called close() on every handle the clear removes.
C12_StopClosesAll ==
    [][ WsStop /\ wstop'.pc = "done" =>
          /\ connections' = NoMap
          /\ \A c \in Range(connections) : closed'[c] = 1000 ]_vars

C14_HealthOpen ==
    [][ \A r \in Reqs :
          HealthRequest(r, NoHeader) => resp'[r] = << HealthOk >> ]_vars

\* ---------------------------------------------------------------- C15
\* C15 (duplicate id is rejected): a registration under an id that is in the
\* table does not replace the entry the table has for it, so every published
\* request whose future is pending keeps its own entry while stop has not run.
C15_DuplicateRejected ==
    [][ /\ \A r \in Reqs, p \in Payloads, s \in BOOLEAN, ok \in BOOLEAN, id \in Ids :
              ChatCompletionsWith(r, p, s, ok, id) /\ id \in DOMAIN pending =>
                  id \in DOMAIN pending' /\ pending'[id] = pending[id]
        /\ \A r \in Reqs :
              atPublish'[r] = "yes" /\ fut'[r].st = "pending" /\ srv' = "serving" =>
                  rid'[r] \in DOMAIN pending' /\ pending'[rid'[r]] = r ]_vars

\* ---------------------------------------------------------------- C16
\* C16 (resolution isolation): a send carrying an id that is in the table
\* completes the future registered under that id, and only that one, with its
\* content, and removes that entry, and only that one; a send with no
\* request_id, or with an id that is not in the table, changes no entry and
\* no future.
C16_ResolutionIsolation ==
    [][ \A id \in Ids \cup {NoId, UnknownId}, c \in Contents :
          Send(id, c) =>
              IF id \in DOMAIN pending
              THEN LET r == pending[id]
                   IN  /\ rid[r] = id
                       /\ fut[r].st = "pending" => fut'[r] = [st |-> "result", val |-> c]
                       /\ fut[r].st # "pending" => fut'[r] = fut[r]
                       /\ \A q \in Reqs \ {r} : fut'[q] = fut[q]
                       /\ DOMAIN pending' = DOMAIN pending \ {id}
                       /\ \A i \in DOMAIN pending' : pending'[i] = pending[i]
              ELSE pending' = pending /\ fut' = fut ]_vars

\* Two requests were pending under distinct ids at once: one has been
\* resolved by the only send that carried its id, the other is still in the
\* table with a pending future.
C16_Witness ==
    \E r, q \in Reqs :
        /\ r # q /\ rid[r] # rid[q]
        /\ fut[r].st = "result" /\ sent[rid[r]] = "once" /\ rid[r] \notin warned
        /\ fut[q].st = "pending" /\ rid[q] \in DOMAIN pending /\ pending[rid[q]] = q
        /\ sent[rid[q]] = "never"

\* ---------------------------------------------------------------- C17
\* C17 (streaming framing order): a streaming request whose wait returned the
\* completion has emitted exactly a chunk whose delta carries the whole
\* content with finish_reason null, then a chunk with an empty delta and
\* finish_reason "stop", then [DONE]; one whose wait reported the timeout has
\* emitted exactly one error event, then [DONE]; and once [DONE] is emitted
\* the stream never grows.
C17_StreamFraming ==
    [][ \A r \in Reqs :
          /\ stream'[r] /\ obs'[r] = << "reply" >> =>
                /\ Len(resp'[r]) = 3
                /\ resp'[r][1] = [kind |-> "chat.completion.chunk", code |-> 200,
                                  content |-> fut'[r].val, finish |-> "null"]
                /\ resp'[r][2] = [kind |-> "chat.completion.chunk", code |-> 200,
                                  content |-> "", finish |-> "stop"]
                /\ resp'[r][3].kind = "[DONE]"
          /\ stream'[r] /\ obs'[r] = << "timeout" >> =>
                /\ Len(resp'[r]) = 2
                /\ resp'[r][1].kind = "timeout_error"
                /\ resp'[r][2].kind = "[DONE]"
          /\ (\E i \in 1..Len(resp[r]) : resp[r][i].kind = "[DONE]") =>
                resp'[r] = resp[r] ]_vars

\* One streaming request ended with its reply and another with the timeout.
C17_Witness ==
    \E r, q \in Reqs :
        /\ stream[r] /\ obs[r] = << "reply" >> /\ pc[r] = "done"
        /\ stream[q] /\ obs[q] = << "timeout" >> /\ pc[q] = "done"

\* ---------------------------------------------------------------- C18
\* The text a client reads from a response: the message content of a
\* chat.completion, the concatenation of the delta contents of the chunks of
\* an event stream (an empty delta contributes nothing).
RenderedText(r) ==
    IF stream[r] THEN resp[r][1].content \o resp[r][2].content
    ELSE resp[r][1].content

\* C18 (streaming and non-streaming are equivalent): a request that got the
\* reply R renders the text R, streaming or not, so a streaming and a
\* non-streaming request with the same reply render the same text; and either
\* kind of request that got as far as its wait was registered and published
\* in the same way, its message on the bus carrying its request id.
C18_StreamEquivalence ==
    /\ \A r \in Reqs : obs[r] = << "reply" >> => RenderedText(r) = fut[r].val
    /\ \A r, q \in Reqs :
          /\ stream[r] /\ ~stream[q]
          /\ obs[r] = << "reply" >> /\ obs[q] = << "reply" >>
          /\ fut[r].val = fut[q].val
          => /\ Len(resp[r]) = 3 /\ Len(resp[q]) = 1
             /\ resp[q][1].content = resp[r][1].content \o resp[r][2].content
    /\ \A r \in Reqs :
          pc[r] \in {"published", "streaming", "waiting", "expired"} \/ obs[r] # << >> =>
              /\ atPublish[r] = "yes"
              /\ \E m \in bus : m.request_id = rid[r]

\* A streaming and a non-streaming request both got the reply "R1".
C18_Witness ==
    \E r, q \in Reqs :
        /\ stream[r] /\ ~stream[q]
        /\ obs[r] = << "reply" >> /\ obs[q] = << "reply" >>
        /\ fut[r].val = "R1" /\ fut[q].val = "R1"

\* ---------------------------------------------------------------- C19
\* C19 (timeout removes the entry): the step that reports a timeout answers
\* 504 on the non-streaming path and emits the error event on the streaming
\* path, and leaves the table without the request's id; the id stays absent
\* from then on.
C19_TimeoutRemovesEntry ==
    [][ /\ \A r \in Reqs :
              HandleTimeout(r) =>
                  /\ ~stream[r] =>
                        resp'[r] = << [kind |-> "error", code |-> 504,
                                       content |-> "", finish |-> ""] >>
                  /\ stream[r] =>
                        /\ resp'[r][1].kind = "timeout_error"
                        /\ resp'[r][1].code = 200
                  /\ rid[r] \notin DOMAIN pending'
        /\ \A r \in Reqs :
              obs[r] = << "timeout" >> =>
                  rid[r] \notin DOMAIN pending /\ rid[r] \notin DOMAIN pending' ]_vars

\* A non-streaming request was answered 504 and a streaming one got the
\* error event, with no send for either of them and no stop.
C19_Witness ==
    \E r, q \in Reqs :
        /\ ~stream[r] /\ resp[r] = << HttpError(504) >>
        /\ stream[q] /\ resp[q] = << ErrorChunk, DoneMarker >>
        /\ sent[rid[r]] = "never" /\ sent[rid[q]] = "never"
        /\ srv = "serving"
        /\ pending = Empty

\* ---------------------------------------------------------------- C20
\* Username and password are both configured.
BothConfigured == wcfg.username # "" /\ wcfg.password # ""

AuthDisabled == wcfg.username = "" \/ wcfg.password = ""

\* C21 (auth disabled mode): when the username or the password is not
\* configured, every connection whose sender the allow-list admits is
\* accepted whatever token it presents, and every login answers 200 with an
\* empty token and leaves the token set as it is (empty).
C21_AuthDisabled ==
    [][ AuthDisabled =>
          /\ \A c \in Conns, k \in Keys, h \in Hosts, t \in ClientTokens :
                WsConnect(c, k, h, t) /\ SenderOf(h) \in wcfg.allow_from =>
                    wpc'[c] = "accepting" /\ closed'[c] = 0
          /\ \A cr \in Credentials :
                /\ \A t \in TokenPool :
                      LoginResponse(wcfg, cr[1], cr[2], t) = [status |-> 200, token |-> ""]
                /\ Login(cr[1], cr[2]) => tokens' = tokens
          /\ tokens' = {} ]_vars

\* A username is configured but no password: every connection is open
\* although no token was ever minted.
C21_Witness ==
    /\ wcfg.username # "" /\ wcfg.password = ""
    /\ tokens = {}
    /\ \A c \in Conns : wpc[c] = "open"

\* ---------------------------------------------------------------- C30
\* C30 (no double completion): send never raises; a send that pops an entry
\* whose future is done already (a result, or cancelled by the deadline or by
\* the cancellation of the request task) leaves every future as it is.
C30_NoDoubleCompletion ==
    [][ /\ ~raised'
        /\ \A id \in Ids, c \in Contents :
              Send(id, c) /\ id \in DOMAIN pending /\ fut[pending[id]].st # "pending" =>
                  fut' = fut /\ id \notin DOMAIN pending' ]_vars

\* The deadline of a request passed and cancelled its future; before the
\* except clause ran, the only send for its id found the entry and popped it.
C30_Witness ==
    \E r \in Reqs :
        /\ pc[r] = "expired"
        /\ fut[r].st = "cancelled"
        /\ sent[rid[r]] = "once"
        /\ rid[r] \notin warned
        /\ rid[r] \notin DOMAIN pending
        /\ srv = "serving"

\* ---------------------------------------------------------------- C27
\* The frames that are JSON objects of type "message".
MessageFrames == { f \in Frames : Parsed(f).json = "object" /\ Parsed(f).type = "message" }

\* C27 (dispatch rule): a "message" frame is published exactly when its
\* stripped content is not empty or its media_paths hold at least one string;
\* what is published is one message carrying the connection's chat_id and
\* sender id, the stripped content ("[file]" when that is empty) and the
\* string paths; a "message" frame with neither publishes nothing.
C27_DispatchRule ==
    [][ \A c \in Conns, f \in MessageFrames :
          WsReceive(c, f) =>
              LET text == Strip(Parsed(f).content)
                  strs == { i \in 1..Len(Parsed(f).media_paths) :
                              Parsed(f).media_paths[i].isstr }
              IN  IF text # "" \/ strs # {}
                  THEN /\ Len(wbus') = Len(wbus) + 1
                       /\ SubSeq(wbus', 1, Len(wbus)) = wbus
                       /\ LET m == wbus'[Len(wbus')]
                          IN  /\ m.chat_id = wkey[c]
                              /\ m.sender_id = wsender[c]
                              /\ m.content = (IF text = "" THEN "[file]" ELSE text)
                              /\ Len(m.media) = Cardinality(strs)
                              /\ Len(m.media) <= Len(Parsed(f).media_paths)
                  ELSE wbus' = wbus ]_vars

\* A frame with blank content and one media path waits on the bus as
\* "[file]".
C27_Witness ==
    /\ wbus # << >>
    /\ wbus[1].content = "[file]"
    /\ wbus[1].media = << "f" >>
    /\ wbus[1].chat_id = wkey[wbus[1].conn]

\* ---------------------------------------------------------------- C26
\* The frames that are not a {"type": "message", ...} object.
UnrecognizedFrames == { f \in Frames \ {"disconnect"} : f \notin MessageFrames }

\* C26 (unrecognized frames are ignored): a frame of another type, a JSON
\* value that is not an object, or text that is not JSON publishes nothing
\* and leaves the connection open and its registry entry in place.
C26_UnrecognizedIgnored ==
    [][ \A c \in Conns, f \in UnrecognizedFrames :
          WsReceive(c, f) =>
              /\ wbus' = wbus
              /\ wpc'[c] = "open"
              /\ connections' = connections ]_vars

\* ---------------------------------------------------------------- C25
\* C25 (send failure evicts without retry): when the write of a send fails,
\* send returns without writing again, the key of the send has no entry
\* afterwards and every other key keeps its entry; when the write succeeds
\* the registry is unchanged; a send that finds a handle writes on it once.
C25_SendFailureEvicts ==
    [][ /\ WsSendDone(FALSE) =>
              /\ wsend'.pc = "idle"
              /\ wsend.key \notin DOMAIN connections'
              /\ \A k \in DOMAIN connections \ {wsend.key} :
                    k \in DOMAIN connections' /\ connections'[k] = connections[k]
        /\ WsSendDone(TRUE) => wsend'.pc = "idle" /\ connections' = connections
        /\ wsend.pc = "writing" /\ wsend'.pc = "writing" => wsend' = wsend ]_vars

\* The only connection that was ever accepted is still open, no stop has
\* begun, and its key has no entry: a failed write evicted it.
C25_Witness ==
    \E c \in Conns :
        /\ wpc[c] = "open"
        /\ latest[wkey[c]] = c
        /\ wkey[c] \notin DOMAIN connections
        /\ \A d \in Conns \ {c} : wpc[d] \in {"new", "rejected"}
        /\ wstop.pc = "idle"
        /\ wsend.pc = "idle"

\* ---------------------------------------------------------------- C28
\* C28 (eviction targets only the failed handle): a failed write removes
\* from the registry no handle other than the one the write was on.
C28_EvictsOnlyFailed ==
    [][ WsSendDone(FALSE) =>
          \A k \in DOMAIN connections :
              connections[k] # wsend.ws =>
                  k \in DOMAIN connections' /\ connections'[k] = connections[k] ]_vars

\* ---------------------------------------------------------------- C29
\* C29 (registered handles are live): every handle in the registry belongs
\* to a handler that has been accepted and has not run its cleanup.
C29_RegisteredLive ==
    \A k \in DOMAIN connections : wpc[connections[k]] = "open"

\* A handler has ended and a later connection for the same key is
\* registered and open.
C29_Witness ==
    \E c, d \in Conns :
        /\ wpc[c] = "done" /\ closed[c] = 0
        /\ wpc[d] = "open"
        /\ wkey[c] = wkey[d]
        /\ wkey[d] \in DOMAIN connections /\ connections[wkey[d]] = d

\* ---------------------------------------------------------------- C23
\* C23 (fail fast at startup): with neither api_key nor api_keys configured,
\* start fails, and the channel never serves: no request gets past its
\* arrival, nothing is answered, the table stays empty and nothing is
\* published.
C23_FailFast ==
    cfg.api_key = "" /\ DOMAIN cfg.api_keys = {} =>
        /\ srv \in {"init", "failed"}
        /\ \A r \in Reqs : pc[r] = "new" /\ resp[r] = << >> /\ rid[r] = NoId
        /\ pending = Empty
        /\ bus = {}

\* start has run and failed.
C23_Witness ==
    /\ cfg.api_key = "" /\ DOMAIN cfg.api_keys = {}
    /\ srv = "failed"

\* ---------------------------------------------------------------- C24
\* A message as it appears in the history: its role in lower case
\* ("developer" as "system") and its text without surrounding whitespace.
AsHistory(m) == [role |-> NormRole(m.role), content |-> message_text(m.content)]

\* C24 (prompt and history): for every list of messages, the prompt is the
\* text of the last message whose role is user and the history is every
\* message before it, in order; with no user message the prompt is the text
\* of the last message and the history every other message; so the history
\* has one element for each input message before the prompt message.
C24_PromptHistory ==
    nm_result.called /\ nm_messages # << >> =>
        LET msgs == nm_messages
            users == { i \in 1..Len(msgs) :
                         msgs[i].isdict /\ Lower(Strip(msgs[i].role)) = "user" }
            idx == IF users # {}
                   THEN CHOOSE i \in users : \A j \in users : j <= i
                   ELSE Len(msgs)
        IN  /\ nm_result.prompt = Strip(msgs[idx].content)
            /\ Len(nm_result.history) = idx - 1
            /\ \A i \in 1..(idx - 1) :
                  i <= Len(nm_result.history) => nm_result.history[i] = AsHistory(msgs[i])

\* ---------------------------------------------------------------- C22
\* The principal the configured key map assigns to a token.
KeyMapPrincipal(token) ==
    IF token \in DOMAIN cfg.api_keys THEN cfg.api_keys[token] ELSE "api:default"

\* The one difference between the two statements of C22: the HTTP sender id
\* is the key map's principal as configured (C22_SenderIsPrincipal), or that
\* principal without its surrounding whitespace (C22_ConsistentIdentity).
AsSenderId(stripped, principal) == IF stripped THEN Strip(principal) ELSE principal

ConsistentIdentity(stripped) ==
    /\ \A r \in Reqs, h \in Headers :
          AuthMiddleware(r, h) /\ pc'[r] = "authed" =>
              sender'[r] = KeyMapPrincipal(Strip(h.token))
    /\ \A r \in Reqs :
          pc[r] = "authed" /\ pc'[r] # "authed" =>
              /\ resp'[r] = << HttpError(403) >> => AsSenderId(stripped, sender[r]) \notin cfg.allow_from
              /\ bus' # bus =>
                    /\ AsSenderId(stripped, sender[r]) \in cfg.allow_from
                    /\ \E m \in bus' \ bus :
                          /\ bus' = bus \cup {m}
                          /\ m.request_id = rid'[r]
                          /\ m.sender_id = AsSenderId(stripped, sender[r])
    /\ \A c \in Conns, k \in Keys, h \in Hosts, t \in ClientTokens :
          WsConnect(c, k, h, t) =>
              IF SenderOf(h) \in wcfg.allow_from
              THEN wsender'[c] = SenderOf(h)
              ELSE wpc'[c] = "rejected"
    /\ \A i \in 1..Len(wbus') :
          /\ wbus'[i].sender_id = wsender'[wbus'[i].conn]
          /\ wbus'[i].sender_id \in wcfg.allow_from

\* C22 as stated: the HTTP sender id checked against the allow-list and
\* published is the principal the key map assigns to the presented token.
C22_SenderIsPrincipal ==
    [][ ConsistentIdentity(FALSE) ]_vars

\* C22 (consistent identity): for every accepted HTTP request the value
\* checked against the allow-list is the value published as sender_id, and
\* it is the principal the key map assigns to the presented token, without
\* its surrounding whitespace; for every WebSocket message the value checked
\* against the allow-list is the value published as sender_id.
C22_ConsistentIdentity ==
    [][ ConsistentIdentity(TRUE) ]_vars

\* A request authenticated as the padded principal " alice " is published
\* with sender id "alice", and a WebSocket message of an allowed host is on
\* the bus.
C22_Witness ==
    /\ \E r \in Reqs, m \in bus :
          sender[r] = " alice " /\ m.request_id = rid[r] /\ m.sender_id = "alice"
    /\ wbus # << >> /\ wbus[1].sender_id = "web:h1"

\* ---------------------------------------------------------------- C31
\* A step of _safe_get that puts a GET request on the wire.
SendsRequest == requests' # requests

\* C31 (SSRF guard on every hop): _safe_get sends a GET request only for the
\* URL that the call of _validate_public_target just before it accepted, at
\* the first hop and at every redirect target: the call reaches client.get
\* only through an accepting validation of current_url, the only step it takes
\* from there is the request for that URL, and a URL that was requested is
\* never one the validation rejects whatever DNS answers. A validation that
\* rejects raises ValueError with the validator's message, sends nothing, and
\* the call takes no further step.
C31_GuardedHops ==
    /\ [][ SendsRequest =>
             /\ sg_pc = "get" /\ is_valid /\ vp_url = current_url
             /\ requests' = requests + 1 /\ sent_url' = current_url ]_vars
    /\ [][ (sg_pc # "get" /\ sg_pc' = "get") =>
             /\ sg_pc = "validate" /\ is_valid' /\ vp_url' = current_url
             /\ current_url' = current_url
             /\ \E infos \in DnsAnswers :
                   validate_public_target(current_url, infos).ok ]_vars
    /\ [][ sg_pc = "get" => SendsRequest ]_vars
    /\ [][ (sg_pc = "validate" /\ ~is_valid') =>
             /\ sg_pc' = "raised"
             /\ sg_result' = Raised("ValueError", error_msg')
             /\ error_msg' # ""
             /\ vp_url' = current_url
             /\ requests' = requests /\ sent_url' = sent_url ]_vars
    /\ [][ sg_pc = "raised" => requests' = requests ]_vars
    /\ [](sent_url # NoUrl => validate_public_target(sent_url, gaierror).ok)

\* A redirect target was accepted and requested, and the target of the second
\* redirect was rejected: the call raised after two requests.
C31_Witness ==
    /\ sg_pc = "raised" /\ sg_result.kind = "ValueError"
    /\ hop = 2 /\ requests = 2
    /\ ~is_valid /\ vp_url = current_url /\ vp_url # sent_url
    /\ sg_result.msg = "Blocked private DNS target"

\* ---------------------------------------------------------------- C32
\* A step of _safe_get in which client.get returned a response: the response
\* is sg_r after the step.
GotResponse == sg_pc = "await" /\ sg_result'.kind # "RequestError"

Ended == sg_pc \in { "returned", "raised" }

\* C32 as stated: at most MAX_REDIRECTS + 1 requests, the first response that
\* is not a redirect with a location is returned, and a sixth redirect with a
\* location raises "Too many redirects".
C32_ReturnsFirstNonRedirect ==
    /\ [](requests <= MAX_REDIRECTS + 1)
    /\ <>Ended
    /\ [][ (GotResponse /\ ~IsRedirect(sg_r')) =>
             sg_pc' = "returned" /\ sg_result' = Returned(sg_r') ]_vars
    /\ [][ (GotResponse /\ IsRedirect(sg_r') /\ requests = MAX_REDIRECTS + 1) =>
             sg_pc' = "raised" /\ sg_result'.msg = "Too many redirects" ]_vars

\* C32 (bounded redirects): every call of _safe_get ends, by a return or by an
\* exception, after at most MAX_REDIRECTS + 1 requests. The first response
\* that is not a redirect with a location ends the call: it is returned when
\* its status is a success, and HTTPStatusError is raised when its status is a
\* client or server error. A response is returned only if it is not a redirect
\* with a location. A redirect with a location never ends the call with a
\* return: the sixth one raises ValueError, "Too many redirects" unless its
\* location cannot be parsed, and an earlier one raises only if its location
\* cannot be parsed.
C32_BoundedRedirects ==
    /\ [](requests <= MAX_REDIRECTS + 1)
    /\ <>Ended
    /\ [][ (GotResponse /\ ~IsRedirect(sg_r')) =>
             /\ sg_pc' \in { "returned", "raised" }
             /\ sg_pc' = "returned" => sg_result' = Returned(sg_r')
             /\ sg_pc' = "raised" => sg_result'.kind = "HTTPStatusError"
             /\ sg_r'.status \in 200..299 => sg_pc' = "returned"
             /\ sg_r'.status \in 400..599 => sg_pc' = "raised" ]_vars
    /\ [](sg_pc = "returned" =>
             /\ sg_result = Returned(sg_r)
             /\ ~IsRedirect(sg_r)
             /\ requests >= 1)
    /\ [][ (GotResponse /\ IsRedirect(sg_r')) =>
             /\ sg_pc' \in { "validate", "raised" }
             /\ sg_pc' = "raised" =>
                   /\ sg_result'.kind = "ValueError"
                   /\ sg_result'.msg = "Too many redirects"
                         <=> ~JoinRaises(sg_r'.location)
                   /\ JoinRaises(sg_r'.location) \/ requests = MAX_REDIRECTS + 1
             /\ requests = MAX_REDIRECTS + 1 => sg_pc' = "raised" ]_vars

\* Six requests were each answered by a redirect with a location, and the
\* call raised "Too many redirects".
C32_Witness ==
    /\ sg_pc = "raised" /\ sg_result = Raised("ValueError", "Too many redirects")
    /\ requests = MAX_REDIRECTS + 1 /\ hop = MAX_REDIRECTS + 1
    /\ IsRedirect(sg_r)

=============================================================================
